---- MODULE Spec2Model ----
(***************************************************************************)
(* Pseudo-Code Obfuscation Buster (pseudo_code_obfuscation_buster.py).     *)
(*                                                                         *)
(* A line of text is a TLA+ string.  The regular expressions of the        *)
(* program are translated character by character: every re.sub, re.split, *)
(* findall, finditer and search below scans the string the way Python's    *)
(* backtracking matcher does (leftmost match, alternatives in order,       *)
(* greedy quantifiers, non-overlapping matches).                           *)
(***************************************************************************)
EXTENDS Integers, Sequences, FiniteSets, TLC

VARIABLES argv, file, readable, intact, writable, pc, idx, out, trace

vars == <<argv, file, readable, intact, writable, pc, idx, out, trace>>

(***************************************************************************)
(* Characters and character classes (str methods and regex classes).       *)
(***************************************************************************)
UPPER == "ABCDEFGHIJKLMNOPQRSTUVWXYZ"
LOWER == "abcdefghijklmnopqrstuvwxyz"
DIGITS == "0123456789"

Char(s, i) == SubSeq(s, i, i)

CharsOf(s) == {Char(s, i) : i \in 1..Len(s)}

UpperChars == CharsOf(UPPER)
LowerChars == CharsOf(LOWER)
DigitChars == CharsOf(DIGITS)

\* the control characters without an escape of their own: vertical tab
\* (chr 11) and the file, group, record and unit separators (chr 28..31),
\* written as the characters themselves
VT == ""
FS == ""
GS == ""
RS == ""
US == ""

\* \s of the re module, str.strip() and str.isspace(), within ASCII text:
\* blank, \t, \n, \r, \f, vertical tab and chr 28..31
SpaceChars == {" ", "\t", "\n", "\r", "\f", VT, FS, GS, RS, US}

\* \w : [a-zA-Z0-9_]
WordChars == UpperChars \cup LowerChars \cup DigitChars \cup {"_"}

\* [a-zA-Z_] : the first character of an identifier
IdentStartChars == UpperChars \cup LowerChars \cup {"_"}

\* str.lower() on one character
LowerOf == [c \in UpperChars |-> Char(LOWER, CHOOSE i \in 1..Len(UPPER) : Char(UPPER, i) = c)]

LowerChar(c) == IF c \in UpperChars THEN LowerOf[c] ELSE c

RECURSIVE ConcatRange(_, _, _)
\* pieces[lo] + ... + pieces[hi], halving the range
ConcatRange(pieces, lo, hi) ==
    IF lo > hi THEN ""
    ELSE IF lo = hi THEN pieces[lo]
    ELSE LET mid == (lo + hi) \div 2
         IN ConcatRange(pieces, lo, mid) \o ConcatRange(pieces, mid + 1, hi)

\* "".join(pieces)
Concat(pieces) == ConcatRange(pieces, 1, Len(pieces))

\* str.lower()
Lower(s) == Concat([i \in 1..Len(s) |-> LowerChar(Char(s, i))])

\* str.isupper(): at least one cased character and no lowercase one
IsUpperStr(s) ==
    /\ \E i \in 1..Len(s) : Char(s, i) \in UpperChars
    /\ \A i \in 1..Len(s) : Char(s, i) \notin LowerChars

\* str.islower(): at least one cased character and no uppercase one
IsLowerStr(s) ==
    /\ \E i \in 1..Len(s) : Char(s, i) \in LowerChars
    /\ \A i \in 1..Len(s) : Char(s, i) \notin UpperChars

\* str.isdigit(): non-empty and digits only
IsDigitStr(s) ==
    /\ s # ""
    /\ \A i \in 1..Len(s) : Char(s, i) \in DigitChars

Min(S) == CHOOSE x \in S : \A y \in S : x <= y

Max(S) == CHOOSE x \in S : \A y \in S : y <= x

\* the first position >= i of s whose character is not in class (Len(s)+1 if none)
SkipClass(s, i, class) ==
    CHOOSE j \in i..(Len(s) + 1) :
        /\ j = Len(s) + 1 \/ Char(s, j) \notin class
        /\ \A k \in i..(j - 1) : Char(s, k) \in class

\* the last position <= i of s whose character is not in class (0 if none)
SkipClassBack(s, i, class) ==
    CHOOSE j \in 0..i :
        /\ j = 0 \/ Char(s, j) \notin class
        /\ \A k \in (j + 1)..i : Char(s, k) \in class

\* str.strip()
Strip(s) == SubSeq(s, SkipClass(s, 1, SpaceChars), SkipClassBack(s, Len(s), SpaceChars))

RECURSIVE Join(_, _)
\* sep.join(list)
Join(list, sep) ==
    IF list = <<>> THEN ""
    ELSE IF Len(list) = 1 THEN list[1]
    ELSE list[1] \o sep \o Join(Tail(list), sep)

(***************************************************************************)
(* Regular-expression primitives.  Positions are 1-based; "at i" means the *)
(* match starts with the i-th character.                                   *)
(***************************************************************************)
WordAt(s, i) == i >= 1 /\ i <= Len(s) /\ Char(s, i) \in WordChars

\* \b between the characters i-1 and i
Boundary(s, i) == WordAt(s, i - 1) # WordAt(s, i)

\* the literal lit stands at position i of s
LitAt(s, i, lit) ==
    /\ i >= 1
    /\ i + Len(lit) - 1 <= Len(s)
    /\ SubSeq(s, i, i + Len(lit) - 1) = lit

\* the index of the first alternative of alts that stands at position i, or 0
AltAt(s, i, alts) ==
    LET ok == {k \in 1..Len(alts) : LitAt(s, i, alts[k])}
    IN IF ok = {} THEN 0 ELSE Min(ok)

\* the positions of s where \b holds (before position i, up to Len(s)+1)
Boundaries(s) == {i \in 1..(Len(s) + 1) : Boundary(s, i)}

\* (alts[1]|alts[2]|...)\b at position i of s: the index of the first
\* alternative that matches there, 0 when none does
WordAltAt(s, i, alts) ==
    LET ok == {k \in 1..Len(alts) :
                 LitAt(s, i, alts[k]) /\ Boundary(s, i + Len(alts[k]))}
    IN IF ok = {} THEN 0 ELSE Min(ok)

RECURSIVE SubSpans(_, _, _, _)
\* the rest of re.sub(pattern, repl, s) from position p on.  stop maps every
\* position where the pattern matches to the position behind that match; the
\* leftmost match at or after p is replaced and the scan resumes behind it
SubSpans(s, stop, p, repl) ==
    LET later == {i \in DOMAIN stop : i >= p}
    IN IF later = {} THEN SubSeq(s, p, Len(s))
       ELSE LET i == Min(later)
            IN SubSeq(s, p, i - 1) \o repl \o SubSpans(s, stop, stop[i], repl)

\* where \b(a|b|..)\b matches in t, bounds being Boundaries(t): every
\* position of a match mapped to the position behind the match
WordSpans(t, bounds, alts) ==
    [i \in {j \in bounds : WordAltAt(t, j, alts) # 0} |->
        i + Len(alts[WordAltAt(t, i, alts)])]

\* re.sub(r"\b(a|b|..)\b", repl, s), the pattern compared with t (s, or its
\* lowercase under IGNORECASE)
SubWordsOn(s, t, alts, repl) == SubSpans(s, WordSpans(t, Boundaries(t), alts), 1, repl)

\* re.sub(r"\b(a|b|..)\b", repl, s, flags=re.IGNORECASE); alts in lowercase
SubWordsIC(s, alts, repl) == SubWordsOn(s, Lower(s), alts, repl)

\* re.sub(r"\b<lit>\b", repl, s)
SubWord(s, lit, repl) == SubWordsOn(s, s, <<lit>>, repl)

(***************************************************************************)
(* Normalization dictionaries.                                             *)
(***************************************************************************)
\* LOGIC_KEYWORDS: <<alternatives in pattern order, replacement>>; the
\* alternatives are kept in lowercase, as IGNORECASE compares them
LOGIC_KEYWORDS == <<
    [alts |-> <<"if", "whenever", "provided that", "only when">>, repl |-> "IF"],
    [alts |-> <<"and", "also", "in addition to">>, repl |-> "AND"],
    [alts |-> <<"or", "either", "unless">>, repl |-> "OR"],
    [alts |-> <<"not", "is not", "different from">>, repl |-> "NOT"],
    [alts |-> <<"equals", "is same as", "matches">>, repl |-> "=="],
    [alts |-> <<"greater than", "above">>, repl |-> ">"],
    [alts |-> <<"less than", "below">>, repl |-> "<"],
    [alts |-> <<"true", "yes", "active">>, repl |-> "TRUE"],
    [alts |-> <<"false", "no", "inactive">>, repl |-> "FALSE"],
    [alts |-> <<"is">>, repl |-> "=="] >>

RECURSIVE ApplyRules(_, _, _, _, _)
\* for pat, repl in rules[k..]: line = re.sub(pat, repl, line, flags=re.IGNORECASE)
\* (low is line.lower() and bounds is Boundaries(low), both recomputed when a
\* rule has changed the line)
ApplyRules(line, low, bounds, rules, k) ==
    IF k > Len(rules) THEN line
    ELSE LET spans == WordSpans(low, bounds, rules[k].alts)
             r == SubSpans(line, spans, 1, rules[k].repl)
         IN IF DOMAIN spans = {} THEN ApplyRules(line, low, bounds, rules, k + 1)
            ELSE ApplyRules(r, Lower(r), Boundaries(Lower(r)), rules, k + 1)

\* the loop over rules, from the first one
ApplyAll(line, rules) == ApplyRules(line, Lower(line), Boundaries(Lower(line)), rules, 1)

\* normalize_keywords as it would be with the rule for bare IS applied first
\* and no pass for IS NOT ahead of the loop
normalize_keywords_IsFirst(line) ==
    ApplyAll(line, <<LOGIC_KEYWORDS[Len(LOGIC_KEYWORDS)]>> \o LOGIC_KEYWORDS)

normalize_keywords(line) ==
    ApplyAll(SubWordsIC(line, <<"is not">>, "NOT"), LOGIC_KEYWORDS)

\* VAR_SYNONYMS, in the dictionary's order
VAR_SYNONYMS == <<
    [canon |-> "user_type",
     syns |-> <<"UserType", "user_type", "type_of_user", "User_Type", "uset_type">>],
    [canon |-> "account_status",
     syns |-> <<"ACCT_STATUS", "accountStatus", "status_of_account", "Acct_Status", "account_status">>],
    [canon |-> "customer_tier",
     syns |-> <<"Customer_Tier", "customerTier", "tier_of_customer", "customer_tier">>],
    [canon |-> "purchase_amount",
     syns |-> <<"purchaseAmount", "amount_of_purchase", "purchase_amount">>],
    [canon |-> "user_id",
     syns |-> <<"user_ID", "UserId", "userId", "user_id", "ID_of_user">>],
    [canon |-> "current_time",
     syns |-> <<"current_TIME", "CurrentTime", "currentTime", "current_time", "time_now">>],
    [canon |-> "user_role",
     syns |-> <<"User_Role", "user_role", "role_of_user", "userRole">>],
    [canon |-> "item_count",
     syns |-> <<"itemCount", "Item_Count", "count_of_items", "item_count">>],
    [canon |-> "item_weight",
     syns |-> <<"item_weight", "ItemWeight", "weight_of_item", "itemWeight">>],
    [canon |-> "customer_rating",
     syns |-> <<"customer_rating", "CustomerRating", "rating_of_customer", "customerRating">>],
    [canon |-> "user_status",
     syns |-> <<"user_status", "UserStatus", "status_of_user", "userStatus">>],
    [canon |-> "is_user_admin",
     syns |-> <<"is_User_Admin", "is_user_admin", "isAdmin", "IsUserAdmin">>] >>

Range(f) == {f[i] : i \in DOMAIN f}

\* ALL_VAR_NAMES: every alias in lowercase
ALL_VAR_NAMES == UNION {{Lower(a) : a \in Range(e.syns)} : e \in Range(VAR_SYNONYMS)}

\* VAR_CANONICAL: lowercase alias -> canonical name; a later entry of
\* VAR_SYNONYMS overwrites an earlier one with the same key
VAR_CANONICAL ==
    [a \in ALL_VAR_NAMES |->
        LET ks == {k \in DOMAIN VAR_SYNONYMS :
                     \E x \in Range(VAR_SYNONYMS[k].syns) : Lower(x) = a}
        IN VAR_SYNONYMS[CHOOSE k \in ks : \A j \in ks : j <= k].canon]

(***************************************************************************)
(* Helpers: snake_case conversion and variable normalization.              *)
(***************************************************************************)
\* re.sub(r"([a-z0-9])([A-Z])", r"\1_\2", s): an underscore after every
\* [a-z0-9] that an [A-Z] follows (two matches never share a character)
CamelBreaks(s) ==
    Concat([i \in 1..Len(s) |->
        IF /\ i < Len(s)
           /\ Char(s, i) \in LowerChars \cup DigitChars
           /\ Char(s, i + 1) \in UpperChars
        THEN Char(s, i) \o "_"
        ELSE Char(s, i)])

\* re.sub(r"[\s\-]+", "_", s): one underscore for every run
JoinRuns(s) ==
    Concat([i \in 1..Len(s) |->
        IF Char(s, i) \notin SpaceChars \cup {"-"} THEN Char(s, i)
        ELSE IF i > 1 /\ Char(s, i - 1) \in SpaceChars \cup {"-"} THEN ""
        ELSE "_"])

to_snake_case(s) == Lower(JoinRuns(CamelBreaks(s)))

\* s.replace(c, "")
RemoveChar(s, c) == Concat([i \in 1..Len(s) |-> IF Char(s, i) = c THEN "" ELSE Char(s, i)])

normalize_var(var) ==
    LET v == RemoveChar(RemoveChar(Strip(var), "'"), "\"")
        v_snake == to_snake_case(v)
        hits == {k \in DOMAIN VAR_SYNONYMS :
                   LET syns == Range(VAR_SYNONYMS[k].syns)
                   IN \/ v \in syns
                      \/ v_snake \in syns
                      \/ Lower(v) \in {Lower(x) : x \in syns}}
    IN IF hits = {} THEN v_snake
       ELSE VAR_SYNONYMS[CHOOSE k \in hits : \A j \in hits : k <= j].canon

(***************************************************************************)
(* Helper: variable/parameter normalization in a line.                     *)
(***************************************************************************)
\* the alternatives of (==|!=|>|<|AND|OR|NOT), in pattern order
VarOperators == <<"==", "!=", ">", "<", "AND", "OR", "NOT">>

\* [a-zA-Z0-9_\- ] : the characters a variable name continues with
VarNameChars == WordChars \cup {"-", " "}

\* var_pattern matched at position i: the group [a-zA-Z_][a-zA-Z0-9_\- ]* is
\* greedy and gives characters back one at a time until \s*(operator)
\* follows.  The result is [hit, last, stop]: the group is s[i..last] and the
\* match ends before position stop.
VarPatternAt(s, i) ==
    IF ~(i <= Len(s) /\ Char(s, i) \in IdentStartChars)
    THEN [hit |-> FALSE, last |-> 0, stop |-> 0]
    ELSE LET most == SkipClass(s, i + 1, VarNameChars) - 1
             ok == {g \in i..most :
                      AltAt(s, SkipClass(s, g + 1, SpaceChars), VarOperators) # 0}
         IN IF ok = {} THEN [hit |-> FALSE, last |-> 0, stop |-> 0]
            ELSE LET g == Max(ok)
                     p == SkipClass(s, g + 1, SpaceChars)
                 IN [hit |-> TRUE, last |-> g,
                     stop |-> p + Len(VarOperators[AltAt(s, p, VarOperators)])]

RECURSIVE VarPatternFrom(_, _, _)
\* the groups of the matches of var_pattern from position p on: the leftmost
\* match at or after p, then the scan resumes where that match ended
VarPatternFrom(s, hits, p) ==
    LET later == {i \in hits : i >= p}
    IN IF later = {} THEN <<>>
       ELSE LET i == Min(later)
                m == VarPatternAt(s, i)
            IN <<SubSeq(s, i, m.last)>> \o VarPatternFrom(s, hits, m.stop)

\* [m[0] for m in var_pattern.findall(line)]
VarPatternFindAll(s) ==
    VarPatternFrom(s, {i \in 1..Len(s) : VarPatternAt(s, i).hit}, 1)

RECURSIVE RewriteMatches(_, _, _)
\* the loop over matches: each orig that normalize_var changes is replaced,
\* as a whole word, in the line as rewritten so far
RewriteMatches(line, matches, k) ==
    IF k > Len(matches) THEN line
    ELSE LET orig == matches[k]
             norm == normalize_var(orig)
             next == IF orig # norm THEN SubWord(line, orig, norm) ELSE line
         IN RewriteMatches(next, matches, k + 1)

RECURSIVE AliasRules(_, _)
\* the (alias, canon) pairs the second loop visits, in its order: every
\* alias that differs from its canonical name
AliasRules(k, j) ==
    IF k > Len(VAR_SYNONYMS) THEN <<>>
    ELSE IF j > Len(VAR_SYNONYMS[k].syns) THEN AliasRules(k + 1, 1)
    ELSE (IF VAR_SYNONYMS[k].syns[j] # VAR_SYNONYMS[k].canon
          THEN <<[alts |-> <<Lower(VAR_SYNONYMS[k].syns[j])>>,
                  repl |-> VAR_SYNONYMS[k].canon]>>
          ELSE <<>>) \o AliasRules(k, j + 1)

AliasSweep == AliasRules(1, 1)

normalize_variables(line) ==
    ApplyAll(RewriteMatches(line, VarPatternFindAll(line), 1), AliasSweep)

(***************************************************************************)
(* Helper: literal normalization (TRUE/FALSE).                             *)
(***************************************************************************)
\* re.sub(r"==\s*<WORD>", "== <WORD>", line, flags=re.IGNORECASE); word is
\* the literal in lowercase
SpaceLiteral(line, word, repl) ==
    LET low == Lower(line)
        starts == {i \in 1..Len(line) :
                     LitAt(low, i, "==") /\ LitAt(low, SkipClass(low, i + 2, SpaceChars), word)}
    IN SubSpans(line, [i \in starts |-> SkipClass(low, i + 2, SpaceChars) + Len(word)], 1, repl)

normalize_literals(line) ==
    SpaceLiteral(SpaceLiteral(line, "true", "== TRUE"), "false", "== FALSE")

(***************************************************************************)
(* Helpers: redundancy and contradiction detection.                        *)
(***************************************************************************)
RECURSIVE SplitSpans(_, _, _)
\* the rest of re.split(pattern, s) from position p on; stop as in SubSpans
SplitSpans(s, stop, p) ==
    LET later == {i \in DOMAIN stop : i >= p}
    IN IF later = {} THEN <<SubSeq(s, p, Len(s))>>
       ELSE LET i == Min(later)
            IN <<SubSeq(s, p, i - 1)>> \o SplitSpans(s, stop, stop[i])

\* re.split(r"\bAND\b|\bOR\b", s)
SplitConnectives(s) == SplitSpans(s, WordSpans(s, Boundaries(s), <<"AND", "OR">>), 1)

\* [x for x in list if x], after .strip() of each
StripNonEmpty(list) ==
    LET F[k \in 0..Len(list)] ==
            IF k = 0 THEN <<>>
            ELSE IF Strip(list[k]) # "" THEN Append(F[k - 1], Strip(list[k]))
            ELSE F[k - 1]
    IN F[Len(list)]

\* re.sub(r"\b(THEN|DO|ELSE)\b.*", "", c).strip(): c up to the first
\* THEN, DO or ELSE
CleanCondition(c) ==
    LET starts == DOMAIN WordSpans(c, Boundaries(c), <<"THEN", "DO", "ELSE">>)
    IN Strip(IF starts = {} THEN c ELSE SubSeq(c, 1, Min(starts) - 1))

detect_redundancy(line) ==
    LET conds == StripNonEmpty(SplitConnectives(line))
        \* the loop: [seen, redundants] after the first k conditions
        Loop[k \in 0..Len(conds)] ==
            IF k = 0 THEN [seen |-> {}, redundants |-> <<>>]
            ELSE LET c_clean == CleanCondition(conds[k])
                 IN IF c_clean \in Loop[k - 1].seen
                    THEN [seen |-> Loop[k - 1].seen,
                          redundants |-> Append(Loop[k - 1].redundants, c_clean)]
                    ELSE [seen |-> Loop[k - 1].seen \cup {c_clean},
                          redundants |-> Loop[k - 1].redundants]
    IN Loop[Len(conds)].redundants

\* re.search(r"IF (.+?) == (.+?) (THEN|DO).+ELSE IF \1 == \2", line): some
\* a < b < c < d with "IF " at a, " == " at b, " THEN" or " DO" at c, and
\* "ELSE IF <group 1> == <group 2>" at d, at least one character behind the
\* THEN or DO.  (A line holds no newline, so "." matches every character.)
detect_contradiction(line) ==
    LET elseIfs == {d \in 1..Len(line) : LitAt(line, d, "ELSE IF ")}
    IN /\ elseIfs # {}
       /\ \E a \in {i \in 1..Len(line) : LitAt(line, i, "IF ")} :
          \E b \in {i \in (a + 4)..Len(line) : LitAt(line, i, " == ")} :
          \E c \in {i \in (b + 5)..Len(line) : AltAt(line, i, <<" THEN", " DO">>) # 0} :
          \E d \in elseIfs :
             /\ d > c + Len(<<" THEN", " DO">>[AltAt(line, c, <<" THEN", " DO">>)])
             /\ LitAt(line, d, "ELSE IF " \o SubSeq(line, a + 3, b - 1) \o " == "
                                \o SubSeq(line, b + 4, c - 1))

(***************************************************************************)
(* Typo and illogical-comparison detection.                                *)
(***************************************************************************)
RECURSIVE Ascending(_)
\* the elements of a set of positions, from left to right
Ascending(S) == IF S = {} THEN <<>> ELSE <<Min(S)>> \o Ascending(S \ {Min(S)})

\* re.findall(r"\b[a-zA-Z_][a-zA-Z0-9_]*\b", line): the runs of word
\* characters that do not begin with a digit
IdentifierTokens(line) ==
    LET starts == Ascending({i \in 1..Len(line) :
                               /\ Char(line, i) \in IdentStartChars
                               /\ ~WordAt(line, i - 1)})
    IN [k \in 1..Len(starts) |->
           SubSeq(line, starts[k], SkipClass(line, starts[k], WordChars) - 1)]

\* [x for x in list if x in keep]
Filter(list, keep) ==
    LET F[k \in 0..Len(list)] ==
            IF k = 0 THEN <<>>
            ELSE IF list[k] \in keep THEN Append(F[k - 1], list[k])
            ELSE F[k - 1]
    IN F[Len(list)]

\* the test detect_typos makes of one token
IsTypo(t) ==
    /\ Lower(t) \notin ALL_VAR_NAMES
    /\ Lower(t) \notin DOMAIN VAR_CANONICAL
    /\ Len(t) > 4
    /\ ~IsUpperStr(t)
    /\ ~IsLowerStr(t)

detect_typos(line) ==
    LET tokens == IdentifierTokens(line)
    IN Filter(tokens, {t \in Range(tokens) : IsTypo(t)})

\* the alternatives of (==|!=|>|<), in pattern order
CompareOperators == <<"==", "!=", ">", "<">>

\* [\w\s] : the characters of a compared value
ValueChars == WordChars \cup SpaceChars

\* (\w+)\s*(==|!=|>|<)\s*(['"]?)([\w\s]+)\3 matched at position i, as the
\* backtracking matcher settles it.  \w+ takes the rest of the word and the
\* operator must follow the blanks behind it.  Behind the operator, q is the
\* first non-blank position.  A quote at q is taken when a run of [\w\s]
\* follows that the same quote closes; otherwise the quote group is empty
\* and the value is the run of [\w\s] at q or, when there is none, the last
\* blank before q.  The result is [hit, quote, val, stop].
IllogicalAt(s, i) ==
    LET none == [hit |-> FALSE, quote |-> "", val |-> "", stop |-> 0]
        p == SkipClass(s, SkipClass(s, i, WordChars), SpaceChars)
        op == AltAt(s, p, CompareOperators)
    IN IF ~WordAt(s, i) \/ op = 0 THEN none
       ELSE LET after == p + Len(CompareOperators[op])
                q == SkipClass(s, after, SpaceChars)
                closing == SkipClass(s, q + 1, ValueChars)
                run == SkipClass(s, q, ValueChars)
            IN IF /\ q <= Len(s)
                  /\ Char(s, q) \in {"'", "\""}
                  /\ closing > q + 1
                  /\ closing <= Len(s)
                  /\ Char(s, closing) = Char(s, q)
               THEN [hit |-> TRUE, quote |-> Char(s, q),
                     val |-> SubSeq(s, q + 1, closing - 1), stop |-> closing + 1]
               ELSE IF run > q
               THEN [hit |-> TRUE, quote |-> "", val |-> SubSeq(s, q, run - 1), stop |-> run]
               ELSE IF q > after
               THEN [hit |-> TRUE, quote |-> "", val |-> SubSeq(s, q - 1, q - 1), stop |-> q]
               ELSE none

RECURSIVE IllogicalFrom(_, _, _)
\* the messages of the matches pattern.finditer(line) yields from position p
\* on: the leftmost match at or after p, then the scan resumes behind it
IllogicalFrom(s, hits, p) ==
    LET later == {i \in hits : i >= p}
    IN IF later = {} THEN <<>>
       ELSE LET m == IllogicalAt(s, Min(later))
                digits == IsDigitStr(Strip(m.val))
                found ==
                    IF m.quote # "" /\ digits
                    THEN <<"Comparing string literal \"" \o m.val \o "\" as number">>
                    ELSE IF m.quote = "" /\ ~digits
                    THEN <<"Comparing unquoted value " \o m.val \o " as string">>
                    ELSE <<>>
            IN found \o IllogicalFrom(s, hits, m.stop)

detect_illogical(line) ==
    IllogicalFrom(line, {i \in 1..Len(line) : IllogicalAt(line, i).hit}, 1)

(***************************************************************************)
(* Main processing function.                                               *)
(***************************************************************************)
\* the three normalization passes of process_line
Normalize(orig_line) ==
    normalize_literals(normalize_variables(normalize_keywords(orig_line)))

\* the chain of process_line as it would be with the typo branch ahead of
\* the redundancy branch
ReportTypoFirst(orig_line, line, redundants, contradiction, typos, illogical) ==
    IF typos # <<>>
    THEN "FLAG: Potential typo(s) in variable name(s): " \o Join(typos, ", ")
         \o " in line: " \o orig_line
    ELSE IF redundants # <<>>
    THEN "FLAG: Redundant condition '" \o redundants[1] \o "' in line: " \o orig_line
    ELSE IF contradiction
    THEN "FLAG: Contradictory/unreachable logic in line: " \o orig_line
    ELSE IF illogical # <<>>
    THEN "FLAG: Illogical comparison: " \o Join(illogical, ", ")
         \o " in line: " \o orig_line
    ELSE line

\* the if/elif chain of process_line: the one entry of output, chosen by the
\* first detector that found something
Report(orig_line, line, redundants, contradiction, typos, illogical) ==
    IF redundants # <<>>
    THEN "FLAG: Redundant condition '" \o redundants[1] \o "' in line: " \o orig_line
    ELSE IF contradiction
    THEN "FLAG: Contradictory/unreachable logic in line: " \o orig_line
    ELSE IF typos # <<>>
    THEN "FLAG: Potential typo(s) in variable name(s): " \o Join(typos, ", ")
         \o " in line: " \o orig_line
    ELSE IF illogical # <<>>
    THEN "FLAG: Illogical comparison: " \o Join(illogical, ", ")
         \o " in line: " \o orig_line
    ELSE line

\* process_line after "line = normalize_literals(line)": the detectors run
\* on the normalized line and the output is appended
Detect(orig_line, keywords, line) ==
    LET found == {[redundants |-> detect_redundancy(line),
                   contradiction |-> detect_contradiction(line),
                   typos |-> detect_typos(line),
                   illogical |-> detect_illogical(line)]}
    IN CHOOSE locals \in
           {[orig_line |-> orig_line, keywords |-> keywords, line |-> line,
             redundants |-> f.redundants, contradiction |-> f.contradiction,
             typos |-> f.typos, illogical |-> f.illogical,
             output |-> <<Report(orig_line, line, f.redundants, f.contradiction,
                                 f.typos, f.illogical)>>] : f \in found} : TRUE

\* process_line with its local variables: the detectors' results and the
\* list it returns (output).  Every local is computed once, in the order of
\* the assignments.
ProcessLine(raw) ==
    CHOOSE locals \in
        UNION {UNION {{Detect(orig_line, keywords, line) :
                          line \in {normalize_literals(normalize_variables(keywords))}} :
                      keywords \in {normalize_keywords(orig_line)}} :
               orig_line \in {Strip(raw)}} : TRUE

process_line(line) == ProcessLine(line).output

(***************************************************************************)
(* Main entry point.  argv is sys.argv; readable says whether open() of    *)
(* the file argv names succeeds (the file exists, is no directory and may  *)
(* be read); intact says whether every read of the loop "for line in f"    *)
(* succeeds (the bytes decode as UTF-8 and the device delivers them); file *)
(* is the text of the input file, every line with its newline; writable    *)
(* says whether standard output takes what is written to it (it does not   *)
(* when it is a pipe whose reader is gone or a full device); idx counts    *)
(* the lines read; out is what print has accepted, one entry per print;    *)
(* trace keeps, for every call of process_line, its local variables.  pc   *)
(* is "exit1" after sys.exit(1) and "raised" after an exception of open(), *)
(* of a read or of print, which nothing catches: the program ends with     *)
(* status 1.  Where a read of a file that is not intact fails depends on   *)
(* the bytes and on the buffering: it is any point of the loop, at the     *)
(* latest the end of the file.  A print to a standard output that is not   *)
(* writable raises at once when Python runs unbuffered; otherwise the      *)
(* buffer accepts the entry and a later print (when the buffer is full) or *)
(* the flush at exit fails: every print may raise or be accepted.          *)
(***************************************************************************)
UsageMessage == "Usage: python pseudo_code_obfuscation_buster.py <input_file.txt>"

\* the test of the loop as it would be if only the empty line were skipped
IsEmptyLine(line) == line = "\n"

\* "not line.strip()"
IsBlank(line) == Strip(line) = ""

\* len(sys.argv) < 2: print the usage (written, or taken by the buffer of a
\* standard output that is not writable) and sys.exit(1)
Usage ==
    /\ pc = "start"
    /\ Len(argv) < 2
    /\ out' = Append(out, UsageMessage)
    /\ pc' = "exit1"
    /\ UNCHANGED <<argv, file, readable, intact, writable, idx, trace>>

\* len(sys.argv) < 2 and print raises (BrokenPipeError, OSError): sys.exit(1)
\* is not reached, main is left by the exception
UsagePrintFails ==
    /\ pc = "start"
    /\ Len(argv) < 2
    /\ ~writable
    /\ pc' = "raised"
    /\ UNCHANGED <<argv, file, readable, intact, writable, idx, out, trace>>

\* open(infile) succeeds
Open ==
    /\ pc = "start"
    /\ Len(argv) >= 2
    /\ readable
    /\ pc' = "loop"
    /\ UNCHANGED <<argv, file, readable, intact, writable, idx, out, trace>>

\* open(infile) raises OSError (FileNotFoundError, IsADirectoryError,
\* PermissionError): main is left by the exception
OpenFails ==
    /\ pc = "start"
    /\ Len(argv) >= 2
    /\ ~readable
    /\ pc' = "raised"
    /\ UNCHANGED <<argv, file, readable, intact, writable, idx, out, trace>>

\* the loop body on a blank line: continue
SkipBlank ==
    /\ pc = "loop"
    /\ idx < Len(file)
    /\ IsBlank(file[idx + 1])
    /\ idx' = idx + 1
    /\ UNCHANGED <<argv, file, readable, intact, writable, pc, out, trace>>

\* the loop body on any other line: print every entry of process_line(line)
\* (written, or taken by the buffer of a standard output that is not
\* writable)
PrintLine ==
    /\ pc = "loop"
    /\ idx < Len(file)
    /\ ~IsBlank(file[idx + 1])
    /\ \E locals \in {ProcessLine(file[idx + 1])} :
          /\ out' = out \o locals.output
          /\ trace' = Append(trace, locals)
    /\ idx' = idx + 1
    /\ UNCHANGED <<argv, file, readable, intact, writable, pc>>

\* the loop body on any other line when print raises (BrokenPipeError,
\* OSError): the line is read and process_line has returned, its entry is
\* not written and main is left by the exception
PrintFails ==
    /\ pc = "loop"
    /\ idx < Len(file)
    /\ ~IsBlank(file[idx + 1])
    /\ ~writable
    /\ trace' = Append(trace, ProcessLine(file[idx + 1]))
    /\ idx' = idx + 1
    /\ pc' = "raised"
    /\ UNCHANGED <<argv, file, readable, intact, writable, out>>

\* "for line in f" raises (UnicodeDecodeError, OSError) instead of giving
\* the next line or the end of the file: main is left by the exception
ReadFails ==
    /\ pc = "loop"
    /\ ~intact
    /\ pc' = "raised"
    /\ UNCHANGED <<argv, file, readable, intact, writable, idx, out, trace>>

\* the end of the file: main returns
Finish ==
    /\ pc = "loop"
    /\ idx = Len(file)
    /\ intact
    /\ pc' = "done"
    /\ UNCHANGED <<argv, file, readable, intact, writable, idx, out, trace>>

Next ==
    \/ Usage \/ UsagePrintFails \/ Open \/ OpenFails
    \/ SkipBlank \/ PrintLine \/ PrintFails \/ ReadFails \/ Finish

(***************************************************************************)
(* Input files.  A file is the sequence of its lines, every line with its  *)
(* newline.  Every family of files below also holds the run without an     *)
(* argument and a file with an empty line.                                 *)
(***************************************************************************)
\* the program started on one of files, intact or not, on a file that
\* cannot be opened, or without an argument, its standard output writable
\* or not
Started(files) ==
    /\ \/ argv = <<"pseudo_code_obfuscation_buster.py">>
          /\ file = <<>> /\ readable = FALSE /\ intact = FALSE
       \/ argv = <<"pseudo_code_obfuscation_buster.py", "input.txt">>
          /\ file \in files /\ readable = TRUE /\ intact \in BOOLEAN
       \/ argv = <<"pseudo_code_obfuscation_buster.py", "no_such_file.txt">>
          /\ file = <<>> /\ readable = FALSE /\ intact = FALSE
    /\ writable \in BOOLEAN
    /\ pc = "start"
    /\ idx = 0
    /\ out = <<>>
    /\ trace = <<>>

\* the files of one line, one for every text of lines, and the file of one
\* empty line
OneLineFiles(lines) == {<<l \o "\n">> : l \in lines \cup {""}}

MaxLines == 2

\* the lines a file is made of: the empty line and a line of whitespace
\* only (blanks, a tab, a vertical tab, a unit separator), the examples
\* of the documentation, and lines with blanks around them
Corpus == {
    "",
    "  \t " \o VT \o US,
    "IF user_type IS \"admin\" AND user_type IS \"admin\" THEN grant_access",
    "IF ID_of_user > 100 THEN allow",
    "  IF purchase_amount == \"50\" THEN flag_review ",
    "IF isAdmin IS TRUE AND verified THEN set approved TRUE" }

RECURSIVE FilesOf(_, _)
\* the files of at most n lines, every line text followed by its newline
FilesOf(texts, n) ==
    IF n = 0 THEN {<<>>}
    ELSE LET shorter == FilesOf(texts, n - 1)
         IN shorter \cup {Append(f, t \o "\n") : f \in shorter, t \in texts}

\* files of up to MaxLines lines of Corpus
Init == Started(FilesOf(Corpus, MaxLines))

Spec == Init /\ [][Next]_vars

MaxConds == 2

\* the conditions a conditional line is made of
Atoms == {"x == 1", "x == 12", "fooBar == 1"}

RECURSIVE Conjunctions(_)
\* one to n conditions joined by AND
Conjunctions(n) ==
    IF n <= 1 THEN Atoms
    ELSE LET shorter == Conjunctions(n - 1)
         IN shorter \cup {c \o " AND " \o a : c \in shorter, a \in Atoms}

\* what stands behind the conditions: nothing, a THEN clause, or a THEN
\* clause with an ELSE IF branch (on x, on fooBar, on conditions that repeat)
Clauses == {
    "",
    " THEN act",
    " THEN act ELSE IF x == 12 THEN alt",
    " THEN act ELSE IF fooBar == 1 THEN alt",
    " THEN act ELSE IF x == 12 AND fooBar == 1 AND fooBar == 1" }

\* conditional lines: with or without IF, up to MaxConds conditions, and one
\* of Clauses behind them
CondLines ==
    {pre \o c \o suf : pre \in {"", "IF "}, c \in Conjunctions(MaxConds), suf \in Clauses}

InitCond == Started(OneLineFiles(CondLines))

SpecCond == InitCond /\ [][Next]_vars

\* <<canonical name, alias>> for every alias VAR_SYNONYMS registers
AliasPairs ==
    UNION {{<<VAR_SYNONYMS[k].canon, VAR_SYNONYMS[k].syns[j]>> :
               j \in DOMAIN VAR_SYNONYMS[k].syns} : k \in DOMAIN VAR_SYNONYMS}

\* names VAR_SYNONYMS does not register
OtherNames == {"_1234", "fooBar", "abcde", "ABCDE", "aBcd"}

\* what stands before and behind the name on a line
Frames == {
    [pre |-> "IF ", suf |-> " > 100 THEN allow"],
    [pre |-> "IF ", suf |-> " AND x"],
    [pre |-> "", suf |-> " == 1"] }

\* files of two lines, the first with an alias and the second with its
\* canonical name in the same frame, and files of one line with another name
NameFiles ==
    {<<f.pre \o p[2] \o f.suf \o "\n", f.pre \o p[1] \o f.suf \o "\n">> :
        p \in AliasPairs, f \in Frames}
    \cup OneLineFiles({f.pre \o n \o f.suf : n \in OtherNames, f \in Frames})

InitNames == Started(NameFiles)

SpecNames == InitNames /\ [][Next]_vars

MaxWords == 3

\* the words of lines about IS and NOT
Vocabulary == {"x", "IS", "NOT", "is", "Not"}

RECURSIVE Phrases(_)
\* one to n words, one blank between two words
Phrases(n) ==
    IF n <= 1 THEN Vocabulary
    ELSE LET shorter == Phrases(n - 1)
         IN shorter \cup {p \o " " \o w : p \in shorter, w \in Vocabulary}

InitWords == Started(OneLineFiles(Phrases(MaxWords)))

SpecWords == InitWords /\ [][Next]_vars

(***************************************************************************)
(* Properties.  trace[k] holds the local variables of the k-th call of     *)
(* process_line; out[k] is the k-th line printed.                          *)
(***************************************************************************)
Contains(s, lit) == \E i \in 1..Len(s) : LitAt(s, i, lit)

\* how many times the word w stands in s, whatever its casing (w in lowercase)
CountWordIC(s, w) ==
    Cardinality(DOMAIN WordSpans(Lower(s), Boundaries(Lower(s)), <<w>>))

\* the detectors in the order of their priority
Priority == <<"Redundancy", "Contradiction", "Typo", "Illogical">>

\* the kind of finding an output line reports, "None" for a line without FLAG
Kind(o) ==
    IF LitAt(o, 1, "FLAG: Redundant condition '") THEN "Redundancy"
    ELSE IF LitAt(o, 1, "FLAG: Contradictory/unreachable logic in line: ") THEN "Contradiction"
    ELSE IF LitAt(o, 1, "FLAG: Potential typo(s) in variable name(s): ") THEN "Typo"
    ELSE IF LitAt(o, 1, "FLAG: Illogical comparison: ") THEN "Illogical"
    ELSE "None"

\* which detectors fire on a normalized line, in the order of Priority
Fired(line) ==
    <<detect_redundancy(line) # <<>>, detect_contradiction(line),
      detect_typos(line) # <<>>, detect_illogical(line) # <<>> >>

\* C1: every call of process_line returns exactly one entry; when detectors
\* fire on the normalized line, the entry is the finding of the first of
\* Redundancy, Contradiction, Typo, Illogical that fires, and it is the
\* normalized line exactly when none fires.
C1_PriorityExclusive ==
    \A k \in 1..Len(trace) :
        \E f \in {Fired(trace[k].line)} :
            LET firing == {i \in 1..Len(Priority) : f[i]}
                o == trace[k].output
            IN /\ Len(o) = 1
               /\ firing # {} => Kind(o[1]) = Priority[Min(firing)]
               /\ firing = {} => Kind(o[1]) = "None" /\ o[1] = trace[k].line

\* a line with a redundant condition and a typo was reported as redundant
C1_Witness ==
    \E k \in 1..Len(trace) :
        /\ trace[k].redundants # <<>>
        /\ trace[k].typos # <<>>
        /\ Kind(trace[k].output[1]) = "Redundancy"

\* a line is empty or whitespace-only
WhitespaceOnly(l) == \A i \in 1..Len(l) : Char(l, i) \in SpaceChars

\* what process_line returns for each line of Corpus, taken alone
OutputOf == [l \in {t \o "\n" : t \in Corpus} |-> process_line(l)]

\* the lines among the first n of the file that are not empty or
\* whitespace-only, from first to last
NonBlank(n) == Ascending({i \in 1..n : ~WhitespaceOnly(file[i])})

    /\ Len(out) = 1

\* C3: normalizing the normalized form of a line again (keywords, variables,
\* literals) gives the same text.
C3_Idempotent ==
    \A k \in 1..Len(trace) : Normalize(trace[k].line) = trace[k].line

\* b is a with one occurrence of the alias replaced by the canonical name
AliasReplaced(a, b, canon, alias) ==
    \E p \in 1..Len(a) :
        /\ LitAt(a, p, alias)
        /\ b = SubSeq(a, 1, p - 1) \o canon \o SubSeq(a, p + Len(alias), Len(a))

\* C4: two lines that differ only in an alias standing where the other has
\* the canonical name have the same normalized text and the same kind of
\* finding.
C4_AliasEquivalence ==
    \A i, j \in 1..Len(trace) :
        (\E p \in AliasPairs :
            AliasReplaced(trace[i].orig_line, trace[j].orig_line, p[1], p[2]))
        => /\ trace[i].line = trace[j].line
           /\ Kind(trace[i].output[1]) = Kind(trace[j].output[1])

\* a condition without the leading IF keyword
WithoutIf(c) == IF LitAt(c, 1, "IF ") THEN Strip(SubSeq(c, 4, Len(c))) ELSE c

\* the conditions of a line: what AND and OR join, without the IF keyword and
\* without the THEN, DO or ELSE clause
Conditions(line) ==
    LET parts == StripNonEmpty(SplitConnectives(line))
    IN [k \in 1..Len(parts) |-> WithoutIf(CleanCondition(parts[k]))]

\* C5: a line one of whose conditions repeats an earlier one is reported as
\* redundant, with the first repeated condition in the message.
C5_RepeatFlagged ==
    \A k \in 1..Len(trace) :
        \E c \in {Conditions(trace[k].line)} :
            LET repeats == {n \in 1..Len(c) : \E j \in 1..(n - 1) : c[j] = c[n]}
            IN repeats # {} =>
                  LitAt(trace[k].output[1], 1,
                        "FLAG: Redundant condition '" \o c[Min(repeats)] \o "'")

\* line is "IF <alias> > <digits> THEN <action>"
AliasAboveNumber(line, alias) ==
    LET from == Len("IF " \o alias \o " > ") + 1
        to == SkipClass(line, from, DigitChars)
    IN /\ LitAt(line, 1, "IF " \o alias \o " > ")
       /\ to > from
       /\ LitAt(line, to, " THEN ")
       /\ WordAt(line, to + Len(" THEN "))
       /\ SkipClass(line, to + Len(" THEN "), WordChars) = Len(line) + 1

\* C6: for a line "IF <alias> > <digits> THEN <action>" process_line returns
\* the line with the alias replaced by its canonical name, and no FLAG.
C6_AliasComparisonPasses ==
    \A k \in 1..Len(trace) : \A p \in AliasPairs :
        AliasAboveNumber(trace[k].orig_line, p[2]) =>
            trace[k].output =
                <<"IF " \o p[1] \o SubSeq(trace[k].orig_line, Len("IF " \o p[2]) + 1,
                                          Len(trace[k].orig_line))>>

\* the line has the shape IF <var> == <val> ... THEN|DO ... ELSE IF <var> == <val>
\* with the second guard's value ending where the first guard's value ends:
\* no further word character follows it
SameGuardTwice(line) ==
    \E a \in {i \in 1..Len(line) : LitAt(line, i, "IF ")} :
    \E b \in {i \in (a + 4)..Len(line) : LitAt(line, i, " == ")} :
    \E c \in {i \in (b + 5)..Len(line) : AltAt(line, i, <<" THEN", " DO">>) # 0} :
    \E d \in {i \in (c + 1)..Len(line) : LitAt(line, i, "ELSE IF ")} :
        LET guard == "ELSE IF " \o SubSeq(line, a + 3, b - 1) \o " == "
                     \o SubSeq(line, b + 4, c - 1)
        IN /\ d > c + Len(<<" THEN", " DO">>[AltAt(line, c, <<" THEN", " DO">>)])
           /\ LitAt(line, d, guard)
           /\ ~(WordAt(line, d + Len(guard) - 1) /\ WordAt(line, d + Len(guard)))

\* C7: detect_contradiction returns true only for a line whose ELSE IF guard
\* has the variable and the value of the first IF guard as complete tokens.
C7_OnlySameGuard ==
    \A k \in 1..Len(trace) :
        trace[k].contradiction => SameGuardTwice(trace[k].line)

\* the token is not a registered name, is longer than four characters and
\* contains an uppercase and a lowercase letter
MixedCaseUnknown(t) ==
    /\ Lower(t) \notin ALL_VAR_NAMES
    /\ Lower(t) \notin {VAR_SYNONYMS[k].canon : k \in DOMAIN VAR_SYNONYMS}
    /\ Len(t) > 4
    /\ \E i \in 1..Len(t) : Char(t, i) \in UpperChars
    /\ \E i \in 1..Len(t) : Char(t, i) \in LowerChars

\* C8: detect_typos returns exactly the identifier tokens that are not
\* registered names, are longer than four characters and contain both an
\* uppercase and a lowercase letter.
C8_TyposAreMixedCase ==
    \A k \in 1..Len(trace) :
        LET tokens == IdentifierTokens(trace[k].line)
        IN trace[k].typos = Filter(tokens, {t \in Range(tokens) : MixedCaseUnknown(t)})

\* the comparison <token> (==|!=|>|<) <value> whose token starts at position
\* i of s is one the heuristic has to report: its value is a quoted run of
\* digits, or an unquoted word that is not a run of digits
HasToReport(s, i) ==
    /\ WordAt(s, i)
    /\ ~WordAt(s, i - 1)
    /\ \E m \in {IllogicalAt(s, i)} :
          /\ m.hit
          /\ IF m.quote # "" THEN IsDigitStr(Strip(m.val))
             ELSE \E word \in {SubSeq(m.val, 1, SkipClass(m.val, 1, WordChars) - 1)} :
                     word # "" /\ ~IsDigitStr(word)

\* C9: detect_illogical reports a comparison of the normalized line exactly
\* when the line has a comparison whose value is quoted and purely digits or
\* unquoted and not purely digits, whatever follows the value.
C9_ReportedIffMisquoted ==
    \A k \in 1..Len(trace) :
        (trace[k].illogical # <<>>)
            <=> \E i \in 1..Len(trace[k].line) : HasToReport(trace[k].line, i)

\* how many times the word or phrase w stands in s as written (whole words)
CountWord(s, w) == Cardinality(DOMAIN WordSpans(s, Boundaries(s), <<w>>))

\* C10: in the text normalize_keywords returns for a line of words separated
\* by single blanks, no word IS is left, every NOT of the line (alone or in
\* IS NOT, in any casing) is one NOT, and there are no more "==" than the
\* line has words IS outside the phrase IS NOT: the IS of IS NOT is never
\* turned into "==", so IS NOT becomes NOT and not "== NOT".
C10_IsNotBecomesNot ==
    \A k \in 1..Len(trace) :
        /\ CountWordIC(trace[k].keywords, "is") = 0
        /\ CountWord(trace[k].keywords, "NOT") = CountWordIC(trace[k].orig_line, "not")
        /\ Cardinality({i \in 1..Len(trace[k].keywords) : LitAt(trace[k].keywords, i, "==")})
             <= CountWordIC(trace[k].orig_line, "is")
                - CountWordIC(trace[k].orig_line, "is not")

\* a line with IS NOT and a bare IS came out with NOT and with ==
C10_Witness ==
    \E k \in 1..Len(trace) :
        /\ Contains(Lower(trace[k].orig_line), "is not")
        /\ Contains(trace[k].keywords, "NOT")
        /\ Contains(trace[k].keywords, "==")
====
